---- MODULE Spec2Model ----
(***************************************************************************)
(* The CHIP-8 core of chip8_core/src/lib.rs as a state machine.  The       *)
(* variables are the fields of struct Emulator; every method of the impl   *)
(* is an operator over a record of those fields, and every public method   *)
(* is an action that the host may call.  A Rust panic is recorded in       *)
(* `panic`; a panicked machine takes no further step.                      *)
(***************************************************************************)
EXTENDS Integers, Sequences, FiniteSets, TLC

\* ---------------------------------------------------------------- constants
SCREEN_WIDTH == 64
SCREEN_HEIGHT == 32
RAM_SIZE == 4096
NUM_REGISTERS == 16
STACK_SIZE == 16
NUM_KEYS == 16
START_ADDR == 512
FONTSET_SIZE == 80
U8 == 256
U16 == 65536

FONTSET ==
  << 240, 144, 144, 144, 240,
     32, 96, 32, 32, 112,
     240, 16, 240, 128, 240,
     240, 16, 240, 16, 240,
     144, 144, 240, 16, 16,
     240, 128, 240, 16, 240,
     240, 128, 240, 144, 240,
     240, 16, 32, 64, 64,
     240, 144, 240, 144, 240,
     240, 144, 240, 16, 240,
     240, 144, 240, 144, 144,
     224, 144, 224, 144, 224,
     240, 128, 128, 128, 240,
     224, 144, 144, 144, 224,
     240, 128, 240, 128, 240,
     240, 128, 240, 128, 128 >>

\* ------------------------------------------------- machine integer helpers
RECURSIVE BitAnd(_, _, _)
BitAnd(a, b, w) ==
  IF w = 0 THEN 0
  ELSE (a % 2) * (b % 2) + 2 * BitAnd(a \div 2, b \div 2, w - 1)

RECURSIVE BitOr(_, _, _)
BitOr(a, b, w) ==
  IF w = 0 THEN 0
  ELSE (IF (a % 2) + (b % 2) > 0 THEN 1 ELSE 0) + 2 * BitOr(a \div 2, b \div 2, w - 1)

RECURSIVE BitXor(_, _, _)
BitXor(a, b, w) ==
  IF w = 0 THEN 0
  ELSE (((a % 2) + (b % 2)) % 2) + 2 * BitXor(a \div 2, b \div 2, w - 1)

Shl(a, n, m) == (a * (2 ^ n)) % m
Shr(a, n) == a \div (2 ^ n)

\* ------------------------------------------------------ arrays of the machine
\* ram: [u8; RAM_SIZE] is held as the function from the addresses of its
\* non-zero bytes to those bytes, and display: [bool; 2048] as the set of the
\* indexes of its set pixels: one value per array, and a state of a few dozen
\* entries instead of six thousand.
peek(m, a) == IF a \in DOMAIN m THEN m[a] ELSE 0

poke(m, a, v) ==
  IF v = 0 THEN [x \in (DOMAIN m) \ {a} |-> m[x]]
  ELSE [x \in (DOMAIN m) \cup {a} |-> IF x = a THEN v ELSE m[x]]

\* m[start .. start + Len(data)).copy_from_slice(data)
copy_from_slice(m, start, data) ==
  LET end == start + Len(data)
      kept == {a \in DOMAIN m : a < start \/ a >= end}
      written == {a \in start .. end - 1 : data[a - start + 1] # 0}
  IN [a \in kept \cup written |-> IF a \in written THEN data[a - start + 1] ELSE m[a]]

ZeroRam == [a \in {} |-> 0]
BlankDisplay == {}

\* ------------------------------------------------------------------- state
VARIABLES pc, ram, display, v_registers, i_register, stack_ptr, stack, keys,
          delay_t, sound_t,
          overflow_checks,  \* build profile: arithmetic overflow panics (debug) or wraps (release)
          panic,            \* "none", or the kind of the panic that ended the last call
          last,             \* the last call of the host and what it fetched / returned
          dt_set, st_set,   \* the value last written to the delay / sound timer
          dt_steps, st_steps, \* timer steps since the delay / sound timer was last written
          ticks, loads, host_calls, \* calls made so far, for the bounds of the exploration
          pushed            \* the values pushed and not yet popped, oldest first

fields == << pc, ram, display, v_registers, i_register, stack_ptr, stack, keys,
             delay_t, sound_t >>
vars == << pc, ram, display, v_registers, i_register, stack_ptr, stack, keys,
           delay_t, sound_t, overflow_checks, panic, last, dt_set, st_set,
           dt_steps, st_steps, ticks, loads, host_calls, pushed >>

\* the Emulator the host holds, as one record
Emulator ==
  [ pc |-> pc, ram |-> ram, display |-> display, v_registers |-> v_registers,
    i_register |-> i_register, stack_ptr |-> stack_ptr, stack |-> stack,
    keys |-> keys, delay_t |-> delay_t, sound_t |-> sound_t, panic |-> "none" ]

Panic(s, kind) == [s EXCEPT !.panic = kind]

\* ------------------------------------------------------------ construction
new ==
  [ pc |-> START_ADDR,
    ram |-> copy_from_slice(ZeroRam, 0, FONTSET),
    display |-> BlankDisplay,
    v_registers |-> [r \in 0 .. NUM_REGISTERS - 1 |-> 0],
    i_register |-> 0,
    stack_ptr |-> 0,
    stack |-> [k \in 0 .. STACK_SIZE - 1 |-> 0],
    keys |-> [k \in 0 .. NUM_KEYS - 1 |-> FALSE],
    delay_t |-> 0,
    sound_t |-> 0,
    panic |-> "none" ]

\* reset that leaves the key latch as it is
reset_keeps_keys(s) ==
  LET s1 == [s EXCEPT !.pc = START_ADDR,
                      !.ram = ZeroRam,
                      !.display = BlankDisplay,
                      !.v_registers = [r \in 0 .. NUM_REGISTERS - 1 |-> 0],
                      !.i_register = 0,
                      !.stack_ptr = 0,
                      !.stack = [k \in 0 .. STACK_SIZE - 1 |-> 0],
                      !.delay_t = 0,
                      !.sound_t = 0]
  IN [s1 EXCEPT !.ram = copy_from_slice(s1.ram, 0, FONTSET)]

reset(s) ==
  LET s1 == [s EXCEPT !.pc = START_ADDR,
                      !.ram = ZeroRam,
                      !.display = BlankDisplay,
                      !.v_registers = [r \in 0 .. NUM_REGISTERS - 1 |-> 0],
                      !.i_register = 0,
                      !.stack_ptr = 0,
                      !.stack = [k \in 0 .. STACK_SIZE - 1 |-> 0],
                      !.keys = [k \in 0 .. NUM_KEYS - 1 |-> FALSE],
                      !.delay_t = 0,
                      !.sound_t = 0]
  IN [s1 EXCEPT !.ram = copy_from_slice(s1.ram, 0, FONTSET)]

\* ------------------------------------------------------------------- fetch
\* fetch that takes the first byte as the low-order byte
fetch_little_endian(s) ==
  IF s.pc >= RAM_SIZE \/ s.pc + 1 >= RAM_SIZE
  THEN [s |-> Panic(s, "index out of bounds"), op |-> 0]
  ELSE [s |-> [s EXCEPT !.pc = (s.pc + 2) % U16],
        op |-> BitOr(Shl(peek(s.ram, s.pc + 1), 8, U16), peek(s.ram, s.pc), 16)]

\* returns the machine after the fetch and the fetched word
fetch(s) ==
  IF s.pc >= RAM_SIZE THEN [s |-> Panic(s, "index out of bounds"), op |-> 0]
  ELSE IF s.pc + 1 >= U16 /\ overflow_checks
       THEN [s |-> Panic(s, "attempt to add with overflow"), op |-> 0]
  ELSE IF (s.pc + 1) % U16 >= RAM_SIZE
       THEN [s |-> Panic(s, "index out of bounds"), op |-> 0]
  ELSE LET higher_byte == peek(s.ram, s.pc)
           lower_byte == peek(s.ram, (s.pc + 1) % U16)
           op == BitOr(Shl(higher_byte, 8, U16), lower_byte, 16)
       IN IF s.pc + 2 >= U16 /\ overflow_checks
          THEN [s |-> Panic(s, "attempt to add with overflow"), op |-> op]
          ELSE [s |-> [s EXCEPT !.pc = (s.pc + 2) % U16], op |-> op]

\* ------------------------------------------------------------------- stack
push(s, val) ==
  IF s.stack_ptr >= STACK_SIZE THEN Panic(s, "index out of bounds")
  ELSE LET s1 == [s EXCEPT !.stack[s.stack_ptr] = val]
       IN IF s1.stack_ptr + 1 >= U16 /\ overflow_checks
          THEN Panic(s1, "attempt to add with overflow")
          ELSE [s1 EXCEPT !.stack_ptr = (s1.stack_ptr + 1) % U16]

pop_reads_then_decrements(s) ==
  IF s.stack_ptr = 0 /\ overflow_checks
  THEN [s |-> Panic(s, "attempt to subtract with overflow"), val |-> 0]
  ELSE IF s.stack_ptr >= STACK_SIZE
  THEN [s |-> Panic(s, "index out of bounds"), val |-> 0]
  ELSE [s |-> [s EXCEPT !.stack_ptr = (s.stack_ptr + U16 - 1) % U16],
        val |-> s.stack[s.stack_ptr]]

\* returns the machine after the pop and the popped value
pop(s) ==
  IF s.stack_ptr = 0 /\ overflow_checks
  THEN [s |-> Panic(s, "attempt to subtract with overflow"), val |-> 0]
  ELSE LET s1 == [s EXCEPT !.stack_ptr = (s.stack_ptr + U16 - 1) % U16]
       IN IF s1.stack_ptr >= STACK_SIZE
          THEN [s |-> Panic(s1, "index out of bounds"), val |-> 0]
          ELSE [s |-> s1, val |-> s1.stack[s1.stack_ptr]]

\* ------------------------------------------------------------------ timers
\* timers that are decremented without the test for 0
tick_timers_wrapping(s) ==
  [s EXCEPT !.delay_t = (s.delay_t + U8 - 1) % U8, !.sound_t = (s.sound_t + U8 - 1) % U8]

tick_timers(s) ==
  LET s1 == IF s.delay_t > 0 THEN [s EXCEPT !.delay_t = s.delay_t - 1] ELSE s
  IN IF s1.sound_t > 0 THEN [s1 EXCEPT !.sound_t = s1.sound_t - 1] ELSE s1

\* -------------------------------------------------------------------- keys
keypress(s, idx, pressed) ==
  IF idx >= NUM_KEYS THEN Panic(s, "index out of bounds")
  ELSE [s EXCEPT !.keys[idx] = pressed]

\* --------------------------------------------------------------------- ram
\* load that clears the memory after the image
load_zero_fills(s, data) ==
  LET start == START_ADDR
      end == START_ADDR + Len(data)
  IN IF end > RAM_SIZE THEN Panic(s, "range end index out of range")
     ELSE [s EXCEPT !.ram = copy_from_slice([a \in {x \in DOMAIN s.ram : x < start} |-> s.ram[a]],
                                            start, data)]

load(s, data) ==
  LET start == START_ADDR
      end == START_ADDR + Len(data)
  IN IF end > RAM_SIZE THEN Panic(s, "range end index out of range")
     ELSE [s EXCEPT !.ram = copy_from_slice(s.ram, start, data)]

\* ----------------------------------------------------------------- execute
D1(op) == Shr(BitAnd(op, 61440, 16), 12)
D2(op) == Shr(BitAnd(op, 3840, 16), 8)
D3(op) == Shr(BitAnd(op, 240, 16), 4)
D4(op) == BitAnd(op, 15, 16)
NNN(op) == BitAnd(op, 4095, 16)
NN(op) == BitAnd(op, 255, 16)

\* pc += 2 of the skip instructions (u16)
skip(s) ==
  IF s.pc + 2 >= U16
  THEN IF overflow_checks THEN Panic(s, "attempt to add with overflow")
       ELSE [s EXCEPT !.pc = (s.pc + 2) % U16]
  ELSE [s EXCEPT !.pc = s.pc + 2]

exec_NOP(s, op) == s

exec_CLS(s, op) == [s EXCEPT !.display = BlankDisplay]

exec_RET(s, op) ==
  LET r == pop(s)
  IN IF r.s.panic # "none" THEN r.s ELSE [r.s EXCEPT !.pc = r.val]

exec_JMP(s, op) == [s EXCEPT !.pc = NNN(op)]

\* the call that pushes the address of the call word instead of the one after it
exec_CALL_pushes_call_address(s, op) ==
  LET s1 == push(s, (s.pc + U16 - 2) % U16)
  IN IF s1.panic # "none" THEN s1 ELSE [s1 EXCEPT !.pc = NNN(op)]

exec_CALL(s, op) ==
  LET s1 == push(s, s.pc)
  IN IF s1.panic # "none" THEN s1 ELSE [s1 EXCEPT !.pc = NNN(op)]

exec_SKIP_3(s, op) ==
  IF s.v_registers[D2(op)] = NN(op) THEN skip(s) ELSE s

exec_SKIP_4(s, op) ==
  IF s.v_registers[D2(op)] = s.v_registers[D3(op)] THEN skip(s) ELSE s

exec_SKIP_5(s, op) ==
  IF s.v_registers[D2(op)] # NN(op) THEN skip(s) ELSE s

exec_SET_NN(s, op) == [s EXCEPT !.v_registers[D2(op)] = NN(op)]

exec_ADD_NN(s, op) ==
  [s EXCEPT !.v_registers[D2(op)] = (s.v_registers[D2(op)] + NN(op)) % U8]

exec_SET_XY(s, op) == [s EXCEPT !.v_registers[D2(op)] = s.v_registers[D3(op)]]

exec_OR_XY(s, op) ==
  [s EXCEPT !.v_registers[D2(op)] = BitOr(s.v_registers[D2(op)], s.v_registers[D3(op)], 8)]

exec_AND_XY(s, op) ==
  [s EXCEPT !.v_registers[D2(op)] = BitAnd(s.v_registers[D2(op)], s.v_registers[D3(op)], 8)]

exec_XOR_XY(s, op) ==
  [s EXCEPT !.v_registers[D2(op)] = BitXor(s.v_registers[D2(op)], s.v_registers[D3(op)], 8)]

\* 8xy4 that writes the flag before the sum
exec_ADD_XY_flag_first(s, op) ==
  LET x == D2(op)
      y == D3(op)
      sum == s.v_registers[x] + s.v_registers[y]
      new_vx == sum % U8
      carry == sum >= U8
      new_vf == IF carry THEN 1 ELSE 0
      s1 == [s EXCEPT !.v_registers[15] = new_vf]
  IN [s1 EXCEPT !.v_registers[x] = new_vx]

exec_ADD_XY(s, op) ==
  LET x == D2(op)
      y == D3(op)
      sum == s.v_registers[x] + s.v_registers[y]
      new_vx == sum % U8
      carry == sum >= U8
      new_vf == IF carry THEN 1 ELSE 0
      s1 == [s EXCEPT !.v_registers[x] = new_vx]
  IN [s1 EXCEPT !.v_registers[15] = new_vf]

exec_SUB_XY(s, op) ==
  LET x == D2(op)
      y == D3(op)
      new_vx == (s.v_registers[x] - s.v_registers[y] + U8) % U8
      borrow == s.v_registers[x] < s.v_registers[y]
      new_vf == IF borrow THEN 0 ELSE 1
      s1 == [s EXCEPT !.v_registers[x] = new_vx]
  IN [s1 EXCEPT !.v_registers[15] = new_vf]

exec_SHR(s, op) ==
  LET x == D2(op)
      lsb == BitAnd(s.v_registers[x], 1, 8)
      s1 == [s EXCEPT !.v_registers[x] = Shr(s.v_registers[x], 1)]
  IN [s1 EXCEPT !.v_registers[15] = lsb]

\* 8xy7 that subtracts V[y] from V[x]
exec_SUBN_XY_swapped(s, op) ==
  LET x == D2(op)
      y == D3(op)
      new_vx == (s.v_registers[x] - s.v_registers[y] + U8) % U8
      borrow == s.v_registers[x] < s.v_registers[y]
      new_vf == IF borrow THEN 0 ELSE 1
      s1 == [s EXCEPT !.v_registers[x] = new_vx]
  IN [s1 EXCEPT !.v_registers[15] = new_vf]

exec_SUBN_XY(s, op) ==
  LET x == D2(op)
      y == D3(op)
      new_vx == (s.v_registers[y] - s.v_registers[x] + U8) % U8
      borrow == s.v_registers[y] < s.v_registers[x]
      new_vf == IF borrow THEN 0 ELSE 1
      s1 == [s EXCEPT !.v_registers[x] = new_vx]
  IN [s1 EXCEPT !.v_registers[15] = new_vf]

exec_SHL(s, op) ==
  LET x == D2(op)
      msb == BitAnd(Shr(s.v_registers[x], 7), 1, 8)
      s1 == [s EXCEPT !.v_registers[x] = Shl(s.v_registers[x], 1, U8)]
  IN [s1 EXCEPT !.v_registers[15] = msb]

exec_SKIP_9(s, op) ==
  IF s.v_registers[D2(op)] # s.v_registers[D3(op)] THEN skip(s) ELSE s

exec_SET_I(s, op) == [s EXCEPT !.i_register = NNN(op)]

exec_JMP_V0(s, op) ==
  LET sum == s.v_registers[0] + NNN(op)
  IN IF sum >= U16
     THEN IF overflow_checks THEN Panic(s, "attempt to add with overflow")
          ELSE [s EXCEPT !.pc = sum % U16]
     ELSE [s EXCEPT !.pc = sum]

exec_RAND(s, op, rng) ==
  LET nn == BitAnd(op, 4095, 16) % U8
  IN [s EXCEPT !.v_registers[D2(op)] = BitAnd(rng, nn, 8)]

\* one row of a sprite: columns x_line .. 7; st is the machine and `flipped`
\* the row that sets the pixels of its set bits instead of inverting them
RECURSIVE draw_cols_sets(_, _, _, _, _, _)
draw_cols_sets(st, pixels, x_cord, y_cord, y_line, x_line) ==
  IF x_line >= 8 THEN st
  ELSE IF BitAnd(pixels, Shr(128, x_line), 8) # 0
       THEN LET x == (x_cord + x_line) % SCREEN_WIDTH
                y == (y_cord + y_line) % SCREEN_HEIGHT
                idx == x + SCREEN_WIDTH * y
                st1 == [s |-> [st.s EXCEPT !.display = st.s.display \cup {idx}],
                        flipped |-> st.flipped \/ idx \in st.s.display]
            IN draw_cols_sets(st1, pixels, x_cord, y_cord, y_line, x_line + 1)
       ELSE draw_cols_sets(st, pixels, x_cord, y_cord, y_line, x_line + 1)

RECURSIVE draw_cols(_, _, _, _, _, _)
draw_cols(st, pixels, x_cord, y_cord, y_line, x_line) ==
  IF x_line >= 8 THEN st
  ELSE IF BitAnd(pixels, Shr(128, x_line), 8) # 0
       THEN LET x == (x_cord + x_line) % SCREEN_WIDTH
                y == (y_cord + y_line) % SCREEN_HEIGHT
                idx == x + SCREEN_WIDTH * y
                st1 == [s |-> [st.s EXCEPT !.display = IF idx \in st.s.display
                                                         THEN st.s.display \ {idx}
                                                         ELSE st.s.display \cup {idx}],
                        flipped |-> st.flipped \/ idx \in st.s.display]
            IN draw_cols(st1, pixels, x_cord, y_cord, y_line, x_line + 1)
       ELSE draw_cols(st, pixels, x_cord, y_cord, y_line, x_line + 1)

\* rows y_line .. num_rows - 1
RECURSIVE draw_rows(_, _, _, _, _)
draw_rows(st, x_cord, y_cord, num_rows, y_line) ==
  IF y_line >= num_rows THEN st
  ELSE LET sum == st.s.i_register + y_line
           addr == sum % U16
       IN IF sum >= U16 /\ overflow_checks
          THEN [st EXCEPT !.s = Panic(st.s, "attempt to add with overflow")]
          ELSE IF addr >= RAM_SIZE
          THEN [st EXCEPT !.s = Panic(st.s, "index out of bounds")]
          ELSE draw_rows(draw_cols(st, peek(st.s.ram, addr), x_cord, y_cord, y_line, 0),
                         x_cord, y_cord, num_rows, y_line + 1)

exec_DRW(s, op) ==
  LET x_cord == s.v_registers[D2(op)]
      y_cord == s.v_registers[D3(op)]
      num_rows == D4(op)
      st == draw_rows([s |-> s, flipped |-> FALSE], x_cord, y_cord, num_rows, 0)
  IN IF st.s.panic # "none" THEN st.s
     ELSE IF st.flipped THEN [st.s EXCEPT !.v_registers[0] = 1]
     ELSE [st.s EXCEPT !.v_registers[0] = 0]

\* a key that is read as pressed is released
exec_SKIP_KEY_consumes(s, op) ==
  LET vx == s.v_registers[D2(op)]
  IN IF vx >= NUM_KEYS THEN Panic(s, "index out of bounds")
     ELSE IF s.keys[vx] THEN skip([s EXCEPT !.keys[vx] = FALSE]) ELSE s

exec_SKIP_KEY(s, op) ==
  LET vx == s.v_registers[D2(op)]
  IN IF vx >= NUM_KEYS THEN Panic(s, "index out of bounds")
     ELSE IF s.keys[vx] THEN skip(s) ELSE s

exec_SKIP_NOKEY(s, op) ==
  LET vx == s.v_registers[D2(op)]
  IN IF vx >= NUM_KEYS THEN Panic(s, "index out of bounds")
     ELSE IF ~ s.keys[vx] THEN skip(s) ELSE s

exec_GET_DT(s, op) == [s EXCEPT !.v_registers[D2(op)] = s.delay_t]

\* the first pressed key from index i on, or NUM_KEYS when there is none
RECURSIVE first_pressed(_, _)
first_pressed(s, i) ==
  IF i >= NUM_KEYS THEN NUM_KEYS
  ELSE IF s.keys[i] THEN i ELSE first_pressed(s, i + 1)

\* the scan without its break: the last pressed key wins
exec_WAIT_KEY_last_pressed(s, op) ==
  LET down == {k \in 0 .. NUM_KEYS - 1 : s.keys[k]}
  IN IF down # {} THEN [s EXCEPT !.v_registers[D2(op)] = CHOOSE k \in down : \A j \in down : j <= k]
     ELSE IF s.pc < 2
          THEN IF overflow_checks THEN Panic(s, "attempt to subtract with overflow")
               ELSE [s EXCEPT !.pc = (s.pc + U16 - 2) % U16]
          ELSE [s EXCEPT !.pc = s.pc - 2]

exec_WAIT_KEY(s, op) ==
  LET i == first_pressed(s, 0)
      pressed == i < NUM_KEYS
  IN IF pressed THEN [s EXCEPT !.v_registers[D2(op)] = i]
     ELSE IF s.pc < 2
          THEN IF overflow_checks THEN Panic(s, "attempt to subtract with overflow")
               ELSE [s EXCEPT !.pc = (s.pc + U16 - 2) % U16]
          ELSE [s EXCEPT !.pc = s.pc - 2]

exec_SET_DT(s, op) == [s EXCEPT !.delay_t = s.v_registers[D2(op)]]

exec_SET_ST(s, op) == [s EXCEPT !.sound_t = s.v_registers[D2(op)]]

exec_ADD_I(s, op) ==
  LET vx == s.v_registers[D2(op)]
      rhs == (s.i_register + vx) % U16
      sum == s.i_register + rhs
  IN IF sum >= U16
     THEN IF overflow_checks THEN Panic(s, "attempt to add with overflow")
          ELSE [s EXCEPT !.i_register = sum % U16]
     ELSE [s EXCEPT !.i_register = sum]

exec_FONT(s, op) ==
  LET c == s.v_registers[D2(op)]
  IN [s EXCEPT !.i_register = (c * 5) % U16]

\* a / b in f32: the quotient rounded to a 24-bit significand (ties to even),
\* as the pair (m, k) that stands for m / 2^k
RECURSIVE F32Scale(_, _, _)
F32Scale(a, b, k) ==
  IF a * (2 ^ k) >= b * (2 ^ 23) THEN k ELSE F32Scale(a, b, k + 1)

F32Div(a, b) ==
  IF a = 0 THEN [m |-> 0, k |-> 0]
  ELSE LET k == F32Scale(a, b, 0)
           n == a * (2 ^ k)
           q == n \div b
           r == n % b
           m == IF 2 * r > b \/ (2 * r = b /\ q % 2 = 1) THEN q + 1 ELSE q
       IN [m |-> m, k |-> k]

F32Floor(f) == f.m \div (2 ^ f.k)
\* f % d in f32 (fmod is exact)
F32Rem(f, d) == [m |-> f.m % (d * (2 ^ f.k)), k |-> f.k]
AsU8(n) == IF n > 255 THEN 255 ELSE IF n < 0 THEN 0 ELSE n

exec_BCD_tens_unreduced(s, op) ==
  LET vx == s.v_registers[D2(op)]
      hundreds == AsU8(F32Floor(F32Div(vx, 100)))
      tens == AsU8(F32Floor(F32Div(vx, 10)))
      ones == AsU8(vx % 10)
      i == s.i_register
  IN IF i >= RAM_SIZE THEN Panic(s, "index out of bounds")
     ELSE LET s1 == [s EXCEPT !.ram = poke(s.ram, i, hundreds)]
          IN IF i + 1 >= U16 /\ overflow_checks THEN Panic(s1, "attempt to add with overflow")
             ELSE IF (i + 1) % U16 >= RAM_SIZE THEN Panic(s1, "index out of bounds")
             ELSE LET s2 == [s1 EXCEPT !.ram = poke(s1.ram, (i + 1) % U16, tens)]
                  IN IF i + 2 >= U16 /\ overflow_checks
                     THEN Panic(s2, "attempt to add with overflow")
                     ELSE IF (i + 2) % U16 >= RAM_SIZE THEN Panic(s2, "index out of bounds")
                     ELSE [s2 EXCEPT !.ram = poke(s2.ram, (i + 2) % U16, ones)]

exec_BCD(s, op) ==
  LET vx == s.v_registers[D2(op)]
      hundreds == AsU8(F32Floor(F32Div(vx, 100)))
      tens == AsU8(F32Floor(F32Rem(F32Div(vx, 10), 10)))
      ones == AsU8(vx % 10)
      i == s.i_register
  IN IF i >= RAM_SIZE THEN Panic(s, "index out of bounds")
     ELSE LET s1 == [s EXCEPT !.ram = poke(s.ram, i, hundreds)]
          IN IF i + 1 >= U16 /\ overflow_checks THEN Panic(s1, "attempt to add with overflow")
             ELSE IF (i + 1) % U16 >= RAM_SIZE THEN Panic(s1, "index out of bounds")
             ELSE LET s2 == [s1 EXCEPT !.ram = poke(s1.ram, (i + 1) % U16, tens)]
                  IN IF i + 2 >= U16 /\ overflow_checks
                     THEN Panic(s2, "attempt to add with overflow")
                     ELSE IF (i + 2) % U16 >= RAM_SIZE THEN Panic(s2, "index out of bounds")
                     ELSE [s2 EXCEPT !.ram = poke(s2.ram, (i + 2) % U16, ones)]

RECURSIVE store_from(_, _, _)
store_from(s, x, idx) ==
  IF idx > x THEN s
  ELSE IF s.i_register + idx >= RAM_SIZE THEN Panic(s, "index out of bounds")
       ELSE store_from([s EXCEPT !.ram = poke(s.ram, s.i_register + idx, s.v_registers[idx])],
                       x, idx + 1)

exec_STORE(s, op) == store_from(s, D2(op), 0)

RECURSIVE load_from(_, _, _)
load_from(s, x, idx) ==
  IF idx > x THEN s
  ELSE IF s.i_register + idx >= RAM_SIZE THEN Panic(s, "index out of bounds")
       ELSE load_from([s EXCEPT !.v_registers[idx] = peek(s.ram, s.i_register + idx)],
                      x, idx + 1)

exec_LOAD(s, op) == load_from(s, D2(op), 0)

exec_UNIMPLEMENTED(s, op) == Panic(s, "not implemented")

execute(s, op, rng) ==
  LET d1 == D1(op)
      d2 == D2(op)
      d3 == D3(op)
      d4 == D4(op)
  IN CASE d1 = 0 /\ d2 = 0 /\ d3 = 0 /\ d4 = 0 -> exec_NOP(s, op)
       [] d1 = 0 /\ d2 = 0 /\ d3 = 14 /\ d4 = 0 -> exec_CLS(s, op)
       [] d1 = 0 /\ d2 = 0 /\ d3 = 14 /\ d4 = 14 -> exec_RET(s, op)
       [] d1 = 1 -> exec_JMP(s, op)
       [] d1 = 2 -> exec_CALL(s, op)
       [] d1 = 3 -> exec_SKIP_3(s, op)
       [] d1 = 4 -> exec_SKIP_4(s, op)
       [] d1 = 5 /\ d4 = 0 -> exec_SKIP_5(s, op)
       [] d1 = 6 -> exec_SET_NN(s, op)
       [] d1 = 7 -> exec_ADD_NN(s, op)
       [] d1 = 8 /\ d4 = 0 -> exec_SET_XY(s, op)
       [] d1 = 8 /\ d4 = 1 -> exec_OR_XY(s, op)
       [] d1 = 8 /\ d4 = 2 -> exec_AND_XY(s, op)
       [] d1 = 8 /\ d4 = 3 -> exec_XOR_XY(s, op)
       [] d1 = 8 /\ d4 = 4 -> exec_ADD_XY(s, op)
       [] d1 = 8 /\ d4 = 5 -> exec_SUB_XY(s, op)
       [] d1 = 8 /\ d4 = 6 -> exec_SHR(s, op)
       [] d1 = 8 /\ d4 = 7 -> exec_SUBN_XY(s, op)
       [] d1 = 8 /\ d4 = 14 -> exec_SHL(s, op)
       [] d1 = 9 /\ d4 = 0 -> exec_SKIP_9(s, op)
       [] d1 = 10 -> exec_SET_I(s, op)
       [] d1 = 11 -> exec_JMP_V0(s, op)
       [] d1 = 12 -> exec_RAND(s, op, rng)
       [] d1 = 13 -> exec_DRW(s, op)
       [] d1 = 14 /\ d3 = 9 /\ d4 = 14 -> exec_SKIP_KEY(s, op)
       [] d1 = 14 /\ d3 = 10 /\ d4 = 1 -> exec_SKIP_NOKEY(s, op)
       [] d1 = 15 /\ d3 = 0 /\ d4 = 7 -> exec_GET_DT(s, op)
       [] d1 = 15 /\ d3 = 0 /\ d4 = 10 -> exec_WAIT_KEY(s, op)
       [] d1 = 15 /\ d3 = 1 /\ d4 = 5 -> exec_SET_DT(s, op)
       [] d1 = 15 /\ d3 = 1 /\ d4 = 8 -> exec_SET_ST(s, op)
       [] d1 = 15 /\ d3 = 1 /\ d4 = 14 -> exec_ADD_I(s, op)
       [] d1 = 15 /\ d3 = 2 /\ d4 = 9 -> exec_FONT(s, op)
       [] d1 = 15 /\ d3 = 3 /\ d4 = 3 -> exec_BCD(s, op)
       [] d1 = 15 /\ d3 = 5 /\ d4 = 5 -> exec_STORE(s, op)
       [] d1 = 15 /\ d3 = 6 /\ d4 = 5 -> exec_LOAD(s, op)
       [] OTHER -> exec_UNIMPLEMENTED(s, op)

\* rng is the byte that rand::random() returns if the instruction asks for one
tick(s, rng) ==
  LET f == fetch(s)
  IN IF f.s.panic # "none" THEN f.s ELSE execute(f.s, f.op, rng)

\* ------------------------------------------------------------------ bounds
MaxTicks == 18        \* instruction steps after a load or reset
MaxHostCalls == 2     \* calls other than instruction steps, where the host makes every call
MaxTimerSteps == 4    \* timer steps after a timer was written
MaxOperand == 2       \* operands of the arithmetic programs: 0 .. MaxOperand, 255 - MaxOperand .. 255
MaxWidePushes == 2    \* stack depths at which the host has two values to push
MaxKeyCalls == 2      \* key events and timer steps of the host that runs a key program

\* ---------------------------------------------------------------- programs
\* an instruction word from its four nibbles
W(d1, d2, d3, d4) == ((d1 * 16 + d2) * 16 + d3) * 16 + d4

\* a program image: the big-endian bytes of a sequence of instruction words
Bytes(words) ==
  [i \in 1 .. 2 * Len(words) |->
     IF i % 2 = 1 THEN words[(i + 1) \div 2] \div 256 ELSE words[i \div 2] % 256]

Zeros(n) == [i \in 1 .. n |-> 0]
Ones(n) == [i \in 1 .. n |-> 1]

Operands == (0 .. MaxOperand) \cup ((255 - MaxOperand) .. 255) \cup {5, 10}

\* Vx = a, Vy = b, then 8xy4, 8xy5, 8xy7 and 7xbb; every program ends in a
\* jump to 0xFFF, where the next fetch fails
ArithProgram(x, y, a, b) ==
  Bytes(<< W(6, x, 0, 0) + a, W(6, y, 0, 0) + b, W(8, x, y, 4), W(8, x, y, 5),
           W(8, x, y, 7), W(7, x, 0, 0) + b, W(1, 15, 15, 15) >>)

ArithRegisters == { << 1, 2 >>, << 14, 0 >>, << 3, 3 >> }

ArithPrograms ==
  { ArithProgram(xy[1], xy[2], a, b) : xy \in ArithRegisters, a \in Operands, b \in Operands }

StackPrograms ==
  { \* 2200: call 0x200, unbounded recursion
    Bytes(<< W(2, 2, 0, 0) >>),
    \* 00EE: return on an empty stack
    Bytes(<< W(0, 0, 14, 14) >>),
    \* 2204 1FFF 00EE: call, return, halt
    Bytes(<< W(2, 2, 0, 4), W(1, 15, 15, 15), W(0, 0, 14, 14) >>),
    \* 2204 1FFF 2208 00EE 00EE: nested calls and returns
    Bytes(<< W(2, 2, 0, 4), W(1, 15, 15, 15), W(2, 2, 0, 8), W(0, 0, 14, 14),
                 W(0, 0, 14, 14) >>) }

ControlPrograms ==
  { \* 1FFE: jump to the last word of memory
    Bytes(<< W(1, 15, 15, 14) >>),
    \* 60FF BFFF: V0 = 255, jump to V0 + 0xFFF
    Bytes(<< W(6, 0, 15, 15), W(11, 15, 15, 15) >>),
    \* 6002 B200 1FFF: V0 = 2, jump to V0 + 0x200
    Bytes(<< W(6, 0, 0, 2), W(11, 2, 0, 0), W(1, 15, 15, 15) >>),
    \* 5001: no such instruction
    Bytes(<< W(5, 0, 0, 1) >>),
    \* 8008: no such instruction
    Bytes(<< W(8, 0, 0, 8) >>),
    \* E000: no such instruction
    Bytes(<< W(14, 0, 0, 0) >>),
    \* F000: no such instruction
    Bytes(<< W(15, 0, 0, 0) >>),
    \* 0001: no such instruction
    Bytes(<< W(0, 0, 0, 1) >>),
    \* 6002 3002 00E0 4001 0000 5020 0000 9010 0000 3003 1FFF: the skip instructions
    Bytes(<< W(6, 0, 0, 2), W(3, 0, 0, 2), W(0, 0, 14, 0), W(4, 0, 0, 1),
                 W(0, 0, 0, 0), W(5, 0, 2, 0), W(0, 0, 0, 0), W(9, 0, 1, 0),
                 W(0, 0, 0, 0), W(3, 0, 0, 3), W(1, 15, 15, 15) >>) }

MemoryPrograms ==
  { \* AFFF D002: sprite rows at 4095 and 4096
    Bytes(<< W(10, 15, 15, 15), W(13, 0, 0, 2) >>),
    \* AFFE 609D F033: BCD at 4094 .. 4096
    Bytes(<< W(10, 15, 15, 14), W(6, 0, 9, 13), W(15, 0, 3, 3) >>),
    \* AC00 609D F033 F265 1FFF: BCD of 157, then load V0 .. V2
    Bytes(<< W(10, 12, 0, 0), W(6, 0, 9, 13), W(15, 0, 3, 3), W(15, 2, 6, 5),
                 W(1, 15, 15, 15) >>),
    \* AFFF F155: store V0, V1 at 4095, 4096
    Bytes(<< W(10, 15, 15, 15), W(15, 1, 5, 5) >>),
    \* AFFF F165: load V0, V1 from 4095, 4096
    Bytes(<< W(10, 15, 15, 15), W(15, 1, 6, 5) >>),
    \* AFFF F01E F01E F01E F01E F01E D001: I doubled until it overflows
    Bytes(<< W(10, 15, 15, 15), W(15, 0, 1, 14), W(15, 0, 1, 14), W(15, 0, 1, 14),
                 W(15, 0, 1, 14), W(15, 0, 1, 14), W(13, 0, 0, 1) >>),
    \* 6107 6208 A300 F255 8120 8121 8122 8123 8126 812E 1FFF: store, logic and shifts
    Bytes(<< W(6, 1, 0, 7), W(6, 2, 0, 8), W(10, 3, 0, 0), W(15, 2, 5, 5),
                 W(8, 1, 2, 0), W(8, 1, 2, 1), W(8, 1, 2, 2), W(8, 1, 2, 3),
                 W(8, 1, 2, 6), W(8, 1, 2, 14), W(1, 15, 15, 15) >>) }

DrawPrograms ==
  { \* D001 D001 1FFF: the same row twice on a blank display
    Bytes(<< W(13, 0, 0, 1), W(13, 0, 0, 1), W(1, 15, 15, 15) >>),
    \* 603C 611E D015 D015 1FFF: a glyph that wraps in both axes, twice
    Bytes(<< W(6, 0, 3, 12), W(6, 1, 1, 14), W(13, 0, 1, 5), W(13, 0, 1, 5),
                 W(1, 15, 15, 15) >>),
    \* D001 A001 D001 1FFF: two different rows that overlap
    Bytes(<< W(13, 0, 0, 1), W(10, 0, 0, 1), W(13, 0, 0, 1), W(1, 15, 15, 15) >>),
    \* 6F01 D001 D001 1FFF: V[F] preset to 1
    Bytes(<< W(6, 15, 0, 1), W(13, 0, 0, 1), W(13, 0, 0, 1), W(1, 15, 15, 15) >>),
    \* 6009 F029 D005 00E0 1FFF: glyph 9, clear
    Bytes(<< W(6, 0, 0, 9), W(15, 0, 2, 9), W(13, 0, 0, 5), W(0, 0, 14, 0),
                 W(1, 15, 15, 15) >>),
    \* 613E 621E D125 D125 1FFF: glyph 0 at (62, 30), wrapping in both axes, twice
    Bytes(<< W(6, 1, 3, 14), W(6, 2, 1, 14), W(13, 1, 2, 5), W(13, 1, 2, 5),
                 W(1, 15, 15, 15) >>),
    \* 6F07 A00A DFF5 DFF5 1FFF: coordinates from V[F]
    Bytes(<< W(6, 15, 0, 7), W(10, 0, 0, 10), W(13, 15, 15, 5), W(13, 15, 15, 5),
                 W(1, 15, 15, 15) >>) }

\* V0 = v, delay = V0, sound = V0, V1 = delay
TimerPrograms ==
  { Bytes(<< W(6, 0, 0, 0) + v, W(15, 0, 1, 5), W(15, 0, 1, 8), W(15, 1, 0, 7),
             W(1, 15, 15, 15) >>) : v \in {0, 1, 3, 255} }

\* operands for the flag programs: both values of the lowest and of the highest bit
FlagOperands == {0, 1, 128, 255}

\* register pairs with the flag register as x, as y, and as both
FlagRegisters == { << 15, 2 >>, << 1, 15 >>, << 15, 15 >> }

\* Vx = a, Vy = b, then one of 8xy4, 8xy5, 8xy6, 8xy7, 8xyE
FlagPrograms ==
  { Bytes(<< W(6, xy[1], 0, 0) + a, W(6, xy[2], 0, 0) + b, W(8, xy[1], xy[2], d4),
             W(1, 15, 15, 15) >>) :
      xy \in FlagRegisters, a \in FlagOperands, b \in FlagOperands, d4 \in {4, 5, 6, 7, 14} }

SkipPrograms ==
  { \* 6002 4102 0000 1FFF: V0 = 2, V1 = 0, skip if V1 # 2
    Bytes(<< W(6, 0, 0, 2), W(4, 1, 0, 2), W(0, 0, 0, 0), W(1, 15, 15, 15) >>),
    \* 6002 6102 4102 0000 1FFF: V0 = 2, V1 = 2, skip if V1 # 2
    Bytes(<< W(6, 0, 0, 2), W(6, 1, 0, 2), W(4, 1, 0, 2), W(0, 0, 0, 0), W(1, 15, 15, 15) >>),
    \* 6010 6105 5010 0000 1FFF: V0 = 16, V1 = 5, skip on V0 against V1
    Bytes(<< W(6, 0, 1, 0), W(6, 1, 0, 5), W(5, 0, 1, 0), W(0, 0, 0, 0), W(1, 15, 15, 15) >>),
    \* 6005 6105 5010 0000 1FFF: V0 = 5, V1 = 5, skip on V0 against V1
    Bytes(<< W(6, 0, 0, 5), W(6, 1, 0, 5), W(5, 0, 1, 0), W(0, 0, 0, 0), W(1, 15, 15, 15) >>),
    \* A123 6004 F01E 1FFF: I = 0x123, V0 = 4, I += V0
    Bytes(<< W(10, 1, 2, 3), W(6, 0, 0, 4), W(15, 0, 1, 14), W(1, 15, 15, 15) >>) }

\* addresses for the decimal digits: over the end of the glyph table, and the
\* last three bytes of memory
BcdAddresses == {78, 4093}

\* I = addr, V0 = v, Fx33: every byte value at each of the addresses
BcdPrograms ==
  { Bytes(<< W(10, 0, 0, 0) + addr, W(6, 0, 0, 0) + v, W(15, 0, 3, 3), W(1, 15, 15, 15) >>) :
      addr \in BcdAddresses, v \in 0 .. 255 }

KeyPrograms ==
  { \* F00A E09E E0A1 1FFF: wait for a key, skip on key down / up
    Bytes(<< W(15, 0, 0, 10), W(14, 0, 9, 14), W(14, 0, 10, 1), W(1, 15, 15, 15) >>),
    \* 6010 E09E: key index 16
    Bytes(<< W(6, 0, 1, 0), W(14, 0, 9, 14) >>),
    \* 6011 E0A1: key index 17
    Bytes(<< W(6, 0, 1, 1), W(14, 0, 10, 1) >>),
    \* C0FF C00F 1FFF: random bytes
    Bytes(<< W(12, 0, 15, 15), W(12, 0, 0, 15), W(1, 15, 15, 15) >>),
    \* 6005 F015 F30A 6003 E09E E3A1 1FFF: delay = 5, wait for a key into V3, skips on key 3
    Bytes(<< W(6, 0, 0, 5), W(15, 0, 1, 5), W(15, 3, 0, 10), W(6, 0, 0, 3),
             W(14, 0, 9, 14), W(14, 3, 10, 1), W(1, 15, 15, 15) >>) }

\* every program: what a host that only loads and steps runs
Programs ==
  ArithPrograms \cup StackPrograms \cup ControlPrograms \cup MemoryPrograms
    \cup DrawPrograms \cup TimerPrograms \cup KeyPrograms \cup BcdPrograms
    \cup SkipPrograms \cup FlagPrograms

HostPrograms ==
  { \* AC00 609D F033 F265 1FFF: BCD of 157, then load V0 .. V2
    Bytes(<< W(10, 12, 0, 0), W(6, 0, 9, 13), W(15, 0, 3, 3), W(15, 2, 6, 5),
                 W(1, 15, 15, 15) >>),
    \* 6009 F029 D005 00E0 1FFF: glyph 9, clear
    Bytes(<< W(6, 0, 0, 9), W(15, 0, 2, 9), W(13, 0, 0, 5), W(0, 0, 14, 0),
                 W(1, 15, 15, 15) >>),
    \* 6003 F015 F018 F107 1FFF: timers
    Bytes(<< W(6, 0, 0, 3), W(15, 0, 1, 5), W(15, 0, 1, 8), W(15, 1, 0, 7),
                 W(1, 15, 15, 15) >>),
    \* F00A E09E E0A1 1FFF: keys
    Bytes(<< W(15, 0, 0, 10), W(14, 0, 9, 14), W(14, 0, 10, 1), W(1, 15, 15, 15) >>) } \cup StackPrograms \cup {Ones(3584), Ones(3585)}

\* images for a load over a machine that already holds a program
Images ==
  { Zeros(0), Ones(2), Ones(3584), Ones(3585),
    Bytes(<< W(13, 0, 0, 1), W(15, 0, 6, 5) >>) }

KeyIndexes == {0, 3, 16}
PushValues == {4094, 65535}

\* what the host pushes at the current depth: a value that names the depth,
\* and at the first depths the largest value as well
StackValues ==
  {4094 - 2 * stack_ptr} \cup (IF stack_ptr < MaxWidePushes THEN {65535} ELSE {})
RandomBytes == {0, 90, 255}

\* ----------------------------------------------------------------- actions
Install(r) ==
  /\ pc' = r.pc
  /\ ram' = r.ram
  /\ display' = r.display
  /\ v_registers' = r.v_registers
  /\ i_register' = r.i_register
  /\ stack_ptr' = r.stack_ptr
  /\ stack' = r.stack
  /\ keys' = r.keys
  /\ delay_t' = r.delay_t
  /\ sound_t' = r.sound_t
  /\ panic' = r.panic

\* a call of the host: its name, the word it fetched and the pc after the
\* fetch (tick), its argument (push, keypress), the value it returned (pop)
\* or the pressed flag (keypress), and the image it was given (load)
Call(name, op, fpc, arg, ret) ==
  [call |-> name, op |-> op, fpc |-> fpc, arg |-> arg, ret |-> ret, data |-> << >>]

Init ==
  /\ pc = new.pc
  /\ ram = new.ram
  /\ display = new.display
  /\ v_registers = new.v_registers
  /\ i_register = new.i_register
  /\ stack_ptr = new.stack_ptr
  /\ stack = new.stack
  /\ keys = new.keys
  /\ delay_t = new.delay_t
  /\ sound_t = new.sound_t
  /\ panic = new.panic
  /\ overflow_checks \in BOOLEAN
  /\ last = Call("new", -1, -1, -1, -1)
  /\ dt_set = 0 /\ st_set = 0 /\ dt_steps = 0 /\ st_steps = 0
  /\ ticks = 0 /\ loads = 0 /\ host_calls = 0
  /\ pushed = << >>

\* what the timer bookkeeping becomes after a call that leaves machine r
TimersWritten(r, wrote_dt, wrote_st) ==
  /\ dt_set' = IF wrote_dt THEN r.delay_t ELSE dt_set
  /\ dt_steps' = IF wrote_dt THEN 0 ELSE dt_steps
  /\ st_set' = IF wrote_st THEN r.sound_t ELSE st_set
  /\ st_steps' = IF wrote_st THEN 0 ELSE st_steps

IsSetDT(op) == D1(op) = 15 /\ D3(op) = 1 /\ D4(op) = 5
IsSetST(op) == D1(op) = 15 /\ D3(op) = 1 /\ D4(op) = 8
IsCall(op) == D1(op) = 2
IsReturn(op) == op = W(0, 0, 14, 14)

\* the pushed values without the newest
Unpushed == IF Len(pushed) = 0 THEN pushed ELSE SubSeq(pushed, 1, Len(pushed) - 1)

\* the host steps the program it has loaded
Tick ==
  /\ panic = "none"
  /\ loads > 0
  /\ ticks < MaxTicks
  /\ \E rng \in RandomBytes :
       LET f == fetch(Emulator)
           r == tick(Emulator, rng)
           fetched == f.s.panic = "none"
       IN /\ Install(r)
          /\ last' = IF fetched THEN Call("tick", f.op, f.s.pc, -1, -1)
                     ELSE Call("tick", -1, -1, -1, -1)
          /\ TimersWritten(r, fetched /\ r.panic = "none" /\ IsSetDT(f.op),
                              fetched /\ r.panic = "none" /\ IsSetST(f.op))
          /\ pushed' = IF fetched /\ r.panic = "none" /\ IsCall(f.op) THEN Append(pushed, pc + 2)
                        ELSE IF fetched /\ r.panic = "none" /\ IsReturn(f.op) THEN Unpushed
                        ELSE pushed
  /\ ticks' = ticks + 1
  /\ UNCHANGED << overflow_checks, loads, host_calls >>

\* a timer step, which counts as n calls of the host
StepTimers(n) ==
  /\ panic = "none"
  /\ dt_steps < MaxTimerSteps
  /\ st_steps < MaxTimerSteps
  /\ Install(tick_timers(Emulator))
  /\ last' = Call("tick_timers", -1, -1, -1, -1)
  /\ dt_steps' = dt_steps + 1
  /\ st_steps' = st_steps + 1
  /\ host_calls' = host_calls + n
  /\ UNCHANGED << overflow_checks, dt_set, st_set, ticks, loads, pushed >>

TickTimers == StepTimers(0)

HostTickTimers ==
  /\ host_calls < MaxHostCalls
  /\ StepTimers(1)

Reset ==
  /\ panic = "none"
  /\ host_calls < MaxHostCalls
  /\ LET r == reset(Emulator)
     IN Install(r) /\ TimersWritten(r, TRUE, TRUE)
  /\ last' = Call("reset", -1, -1, -1, -1)
  /\ ticks' = 0
  /\ host_calls' = host_calls + 1
  /\ pushed' = << >>
  /\ UNCHANGED << overflow_checks, loads >>

\* a load of one of the images, which counts as n calls of the host
LoadFrom(images, n) ==
  /\ panic = "none"
  /\ \E data \in images :
       /\ Install(load(Emulator, data))
       /\ last' = [Call("load", -1, -1, Len(data), -1) EXCEPT !.data = data]
  /\ loads' = loads + 1
  /\ host_calls' = host_calls + n
  /\ UNCHANGED << overflow_checks, dt_set, st_set, dt_steps, st_steps, ticks, pushed >>

\* the host loads a program, and may later load an image over it
Load ==
  /\ host_calls < MaxHostCalls
  /\ LoadFrom(IF loads = 0 THEN HostPrograms ELSE Images, 1)

\* the host loads one program into the fresh machine
LoadProgram ==
  /\ loads = 0
  /\ LoadFrom(Programs, 0)

\* the host loads one of the timer programs
LoadTimerProgram ==
  /\ loads = 0
  /\ LoadFrom(TimerPrograms, 0)

\* a push of one of the values, which counts as n calls of the host
PushOf(values, n) ==
  /\ panic = "none"
  /\ \E val \in values :
       LET r == push(Emulator, val)
       IN /\ Install(r)
          /\ last' = Call("push", -1, -1, val, -1)
          /\ pushed' = IF r.panic = "none" THEN Append(pushed, val) ELSE pushed
  /\ host_calls' = host_calls + n
  /\ UNCHANGED << overflow_checks, dt_set, st_set, dt_steps, st_steps, ticks, loads >>

Push ==
  /\ host_calls < MaxHostCalls
  /\ PushOf(PushValues, 1)

\* a pop, which counts as n calls of the host
PopOnce(n) ==
  /\ panic = "none"
  /\ LET r == pop(Emulator)
     IN /\ Install(r.s)
        /\ last' = Call("pop", -1, -1, -1, IF r.s.panic = "none" THEN r.val ELSE -1)
        /\ pushed' = IF r.s.panic = "none" THEN Unpushed ELSE pushed
  /\ host_calls' = host_calls + n
  /\ UNCHANGED << overflow_checks, dt_set, st_set, dt_steps, st_steps, ticks, loads >>

Pop ==
  /\ host_calls < MaxHostCalls
  /\ PopOnce(1)

\* a key event for one of the indexes, which counts as n calls of the host
PressKey(n) ==
  /\ panic = "none"
  /\ \E idx \in KeyIndexes, pressed \in BOOLEAN :
       /\ Install(keypress(Emulator, idx, pressed))
       /\ last' = Call("keypress", -1, -1, idx, IF pressed THEN 1 ELSE 0)
  /\ host_calls' = host_calls + n
  /\ UNCHANGED << overflow_checks, dt_set, st_set, dt_steps, st_steps, ticks, loads, pushed >>

Keypress ==
  /\ host_calls < MaxHostCalls
  /\ PressKey(1)

\* the machine under a host that makes every call
Next ==
  \/ Tick
  \/ HostTickTimers
  \/ Reset
  \/ Load
  \/ Push
  \/ Pop
  \/ Keypress

Spec == Init /\ [][Next]_vars

\* the machine under a host that loads one program and only steps it
NextCpu ==
  \/ LoadProgram
  \/ Tick

SpecCpu == Init /\ [][NextCpu]_vars

\* the machine under a host that loads a timer program and steps it and the timers
NextTimers ==
  \/ LoadTimerProgram
  \/ Tick
  \/ TickTimers

SpecTimers == Init /\ [][NextTimers]_vars

\* the host loads one of the key programs
LoadKeyProgram ==
  /\ loads = 0
  /\ LoadFrom(KeyPrograms, 0)

KeysKeypress ==
  /\ host_calls < MaxKeyCalls
  /\ PressKey(1)

KeysTickTimers ==
  /\ host_calls < MaxKeyCalls
  /\ StepTimers(1)

\* the machine under a host that loads a key program, steps it and the
\* timers, and presses and releases keys
NextKeys ==
  \/ LoadKeyProgram
  \/ Tick
  \/ KeysTickTimers
  \/ KeysKeypress

SpecKeys == Init /\ [][NextKeys]_vars

\* the host pushes and pops on the fresh machine
StackPush == PushOf(StackValues, 0)
StackPop == PopOnce(0)

NextStack ==
  \/ StackPush
  \/ StackPop

SpecStack == Init /\ [][NextStack]_vars

\* ================================================================== claims

\* the step just taken was an instruction step that fetched a word with first nibble d1
Ticked(d1) == last.call = "tick" /\ last.op >= 0 /\ last.op \div 4096 = d1

\* C1: the stack pointer stays in 0 .. 16 in every reachable state, and a push
\* at pointer 16 or a pop at pointer 0 (by call 2nnn, return 00EE or a direct
\* call) comes back to the host as an error outcome instead of a panic.
C1_StackErrorsReported ==
  /\ stack_ptr \in 0 .. STACK_SIZE
  /\ (last.call \in {"push", "pop"} \/ Ticked(2) \/ (last.call = "tick" /\ last.op = 238))
       => panic = "none"

\* C2: every instruction step that would read or write memory outside
\* 0 .. 4095 (fetch at pc, pc + 1; sprite rows; BCD; register store / load)
\* comes back to the host as an error outcome instead of a panic.
C2_OutOfBoundsReported ==
  /\ DOMAIN ram \subseteq 0 .. RAM_SIZE - 1
  /\ last.call = "tick" => panic # "index out of bounds"

\* C3: an instruction step that fetches a word of no instruction (5001, 8008,
\* E000, F000, 0001) comes back to the host with an outcome; the process goes on.
C3_UnimplementedReported ==
  (last.call = "tick" /\ last.op \in {20481, 32776, 57344, 61440, 1}) => panic = "none"

\* C4: a load of more than 3584 bytes comes back to the host with an error
\* outcome and leaves the whole machine as it was.
C4_LoadRejected ==
  [][(last'.call = "load" /\ Len(last'.data) > RAM_SIZE - START_ADDR)
       => (panic' = "none" /\ UNCHANGED fields)]_vars

\* C5: a load of N <= 3584 bytes leaves memory[512 .. 512 + N) equal to the
\* image and every other byte of memory, the glyph table included, as it was.
C5_LoadFrame ==
  [][(last'.call = "load" /\ Len(last'.data) <= 3584)
       => /\ panic' = "none"
          /\ \A a \in 0 .. RAM_SIZE - 1 :
               peek(ram', a) = IF a >= 512 /\ a < 512 + Len(last'.data)
                               THEN last'.data[a - 511]
                               ELSE peek(ram, a)]_vars

\* a load of a non-empty image over a loaded program, whose bytes after the image remain
C5_Witness ==
  /\ last.call = "load"
  /\ loads = 2
  /\ Len(last.data) = 2
  /\ peek(ram, 512) = 1 /\ peek(ram, 513) = 1 /\ peek(ram, 514) # 0
  /\ peek(ram, 0) = 240

\* C6: after reset the machine equals a freshly constructed one in every
\* field: pc 512, memory zero but for the glyph table at 0 .. 79, display
\* blank, registers, index, stack pointer, stack, keys and timers zero.
C6_ResetIsNew ==
  last.call = "reset"
    => /\ pc = 512
       /\ \A a \in 0 .. RAM_SIZE - 1 : peek(ram, a) = IF a < 80 THEN FONTSET[a + 1] ELSE 0
       /\ display = {}
       /\ \A r \in 0 .. 15 : v_registers[r] = 0
       /\ i_register = 0
       /\ stack_ptr = 0
       /\ \A k \in 0 .. 15 : stack[k] = 0
       /\ \A k \in 0 .. 15 : keys[k] = FALSE
       /\ delay_t = 0 /\ sound_t = 0
       /\ Emulator = new

\* a reset of a machine that had loaded and stepped a program
C6_Witness == last.call = "reset" /\ loads = 1 /\ host_calls = 2 /\ Emulator = new

\* C7: each timer is its last written value less the timer steps since, and 0
\* once that many steps were taken: a step takes t > 0 to t - 1, leaves 0 at 0,
\* each timer on its own.
C7_TimersCountDown ==
  /\ delay_t = (IF dt_set > dt_steps THEN dt_set - dt_steps ELSE 0)
  /\ sound_t = (IF st_set > st_steps THEN st_set - st_steps ELSE 0)

\* the delay timer, written with 3, after four timer steps; the sound timer written later
C7_Witness ==
  /\ last.call = "tick_timers"
  /\ dt_set = 3 /\ dt_steps = 4 /\ delay_t = 0
  /\ st_set = 3 /\ st_steps = 3 /\ sound_t = 0

\* C8: with pc and pc + 1 inside memory, fetch returns memory[pc] * 256 +
\* memory[pc + 1] and leaves pc at pc + 2 and everything else as it was.
C8_FetchBigEndian ==
  [][(last'.call = "tick" /\ pc + 1 < RAM_SIZE)
       => /\ last'.op = peek(ram, pc) * 256 + peek(ram, pc + 1)
          /\ last'.fpc = pc + 2
          /\ fetch(Emulator).s = [Emulator EXCEPT !.pc = pc + 2]]_vars

\* the step that fetched 609D at 0x202
C8_Witness == last.call = "tick" /\ last.op = 24733 /\ last.fpc = 516

\* C9: after a draw Dxyn, V[F] is 1 if the draw turned a set pixel off and 0 otherwise.
C9_CollisionInVF ==
  [][(last'.call = "tick" /\ last'.op \div 4096 = 13 /\ panic' = "none")
       => v_registers'[15] = (IF \E p \in display : p \notin display' THEN 1 ELSE 0)]_vars

\* C10: with x, y # 15, a = V[x], b = V[y]: 8xy4 leaves V[x] = (a + b) mod 256
\* and V[F] = carry; 8xy5 leaves V[x] = (a - b) mod 256 and V[F] = 0 if a < b
\* else 1; 8xy7 leaves V[x] = (b - a) mod 256 and V[F] = 0 if b < a else 1;
\* 7xnn leaves V[x] = (a + nn) mod 256 and V[F] as it was.
C10_Arithmetic ==
  [][(last'.call = "tick" /\ last'.op >= 0 /\ panic' = "none")
       => LET op == last'.op
              x == (op \div 256) % 16
              y == (op \div 16) % 16
              a == v_registers[x]
              b == v_registers[y]
              nn == op % 256
          IN /\ (op \div 4096 = 8 /\ op % 16 = 4 /\ x # 15 /\ y # 15)
                  => /\ v_registers'[x] = (a + b) % 256
                     /\ v_registers'[15] = (IF a + b > 255 THEN 1 ELSE 0)
             /\ (op \div 4096 = 8 /\ op % 16 = 5 /\ x # 15 /\ y # 15)
                  => /\ v_registers'[x] = (a - b + 256) % 256
                     /\ v_registers'[15] = (IF a < b THEN 0 ELSE 1)
             /\ (op \div 4096 = 8 /\ op % 16 = 7 /\ x # 15 /\ y # 15)
                  => /\ v_registers'[x] = (b - a + 256) % 256
                     /\ v_registers'[15] = (IF b < a THEN 0 ELSE 1)
             /\ (op \div 4096 = 7 /\ x # 15)
                  => /\ v_registers'[x] = (a + nn) % 256
                     /\ v_registers'[15] = v_registers[15]]_vars

\* 8124 with V1 = 255 and V2 = 1: V1 = 0 and the carry in V[F]
C10_Witness ==
  /\ last.call = "tick" /\ last.op = 33060
  /\ v_registers[1] = 0 /\ v_registers[2] = 1 /\ v_registers[15] = 1

\* C11: Fx33 with I + 2 inside memory leaves memory[I] = V[x] div 100,
\* memory[I + 1] = (V[x] div 10) mod 10 and memory[I + 2] = V[x] mod 10, for every
\* V[x] in 0 .. 255, and changes no other byte of memory, no register and not I.
C11_BCD ==
  [][(last'.call = "tick" /\ last'.op >= 0 /\ last'.op \div 4096 = 15 /\ last'.op % 256 = 51
        /\ i_register + 2 < RAM_SIZE)
       => LET v == v_registers[(last'.op \div 256) % 16]
              i == i_register
          IN /\ panic' = "none"
             /\ \A a \in 0 .. RAM_SIZE - 1 :
                  peek(ram', a) = IF a = i THEN v \div 100
                                  ELSE IF a = i + 1 THEN (v \div 10) % 10
                                  ELSE IF a = i + 2 THEN v % 10
                                  ELSE peek(ram, a)
             /\ v_registers' = v_registers
             /\ i_register' = i_register]_vars

\* the digits 2, 5, 5 of 255 over the last two glyph bytes and the byte after them
C11_Witness ==
  /\ last.call = "tick" /\ last.op = 61491 /\ panic = "none"
  /\ i_register = 78 /\ v_registers[0] = 255
  /\ peek(ram, 77) = 240 /\ peek(ram, 78) = 2 /\ peek(ram, 79) = 5 /\ peek(ram, 80) = 5

\* C12: the stack is last in, first out: a push writes its value at the
\* pointer and then increments the pointer, a pop decrements the pointer and
\* returns the value there, which is the newest value pushed and not yet
\* popped; so k <= 16 pushes from the empty stack and k pops return the values
\* in reverse order and leave the pointer at 0.
C12_StackLIFO ==
  [][((last'.call = "push" /\ stack_ptr < STACK_SIZE)
        => (/\ panic' = "none"
            /\ stack' = [stack EXCEPT ![stack_ptr] = last'.arg]
            /\ stack_ptr' = stack_ptr + 1
            /\ stack_ptr' = Len(pushed')))
     /\ ((last'.call = "pop" /\ stack_ptr > 0)
        => (/\ panic' = "none"
            /\ stack_ptr' = stack_ptr - 1
            /\ last'.ret = stack[stack_ptr - 1]
            /\ last'.ret = pushed[Len(pushed)]
            /\ stack' = stack
            /\ stack_ptr' = Len(pushed')))]_vars

\* the last of 16 pops after 16 pushes: it returns the first value pushed
C12_Witness ==
  /\ last.call = "pop" /\ panic = "none"
  /\ stack_ptr = 0 /\ pushed = << >>
  /\ \A k \in 0 .. STACK_SIZE - 1 : stack[k] # 0
  /\ stack[0] = 65535 /\ last.ret = 65535

\* C13: a step of Fx0A at address a with no key pressed leaves pc = a and
\* registers, index, memory, stack, display and timers as they were, however
\* often it is repeated; a step of Fx0A with a key pressed leaves the lowest
\* pressed key index in V[x] and pc = a + 2.
C13_WaitKeyStalls ==
  [][(last'.call = "tick" /\ last'.op >= 0 /\ last'.op \div 4096 = 15 /\ last'.op % 256 = 10)
       => LET x == (last'.op \div 256) % 16
              down == {k \in 0 .. NUM_KEYS - 1 : keys[k]}
          IN /\ panic' = "none"
             /\ down = {} => (pc' = pc /\ UNCHANGED fields)
             /\ down # {}
                  => /\ pc' = pc + 2
                     /\ v_registers'[x] \in down
                     /\ \A k \in down : v_registers'[x] <= k
                     /\ \A r \in 0 .. NUM_REGISTERS - 1 :
                          r # x => v_registers'[r] = v_registers[r]]_vars

\* F30A at 0x204 stalled at least twice, then read key 3 with key 0 up
C13_Witness ==
  /\ last.call = "tick" /\ last.op = 62218 /\ panic = "none"
  /\ ticks >= 5 /\ pc = 518
  /\ keys[3] /\ ~ keys[0] /\ v_registers[3] = 3

\* C14: no instruction step and no timer step changes a key state; a key
\* event with an index in 0 .. 15 changes the state of that key and of no other.
C14_KeysReadOnly ==
  [][((last'.call \in {"tick", "tick_timers"}) => keys' = keys)
     /\ ((last'.call = "keypress" /\ last'.arg < NUM_KEYS)
           => (/\ panic' = "none"
               /\ keys' = [keys EXCEPT ![last'.arg] = (last'.ret = 1)]
               /\ UNCHANGED << pc, ram, display, v_registers, i_register, stack_ptr,
                               stack, delay_t, sound_t >>))]_vars

\* Ex9E skipped on key 3, which is still pressed, with key 0 up
C14_Witness ==
  /\ last.call = "tick" /\ last.op = 57502 /\ panic = "none"
  /\ pc = 524 /\ v_registers[0] = 3
  /\ keys[3] /\ ~ keys[0]

\* C15: a step of 4xnn leaves pc at the fetch address + 4 when V[x] # nn and
\* at the fetch address + 2 when V[x] = nn, whatever the other registers hold.
C15_SkipNotEqualImmediate ==
  [][(last'.call = "tick" /\ last'.op >= 0 /\ last'.op \div 4096 = 4)
       => LET x == (last'.op \div 256) % 16
              nn == last'.op % 256
          IN /\ panic' = "none"
             /\ pc' = pc + (IF v_registers[x] # nn THEN 4 ELSE 2)]_vars

\* C16: a step of 5xy0 leaves pc at the fetch address + 4 when V[x] # V[y]
\* and at the fetch address + 2 when V[x] = V[y]; the low byte of the
\* instruction, read as an immediate, has no part in it.
C16_SkipRegistersDiffer ==
  [][(last'.call = "tick" /\ last'.op >= 0 /\ last'.op \div 4096 = 5 /\ last'.op % 16 = 0)
       => LET x == (last'.op \div 256) % 16
              y == (last'.op \div 16) % 16
          IN /\ panic' = "none"
             /\ pc' = pc + (IF v_registers[x] # v_registers[y] THEN 4 ELSE 2)]_vars

\* C17: a step of Fx1E leaves I = (I + V[x]) mod 65536 and every register
\* as it was, and does not fail when the sum passes 65535.
C17_AddToIndexOnce ==
  [][(last'.call = "tick" /\ last'.op >= 0 /\ last'.op \div 4096 = 15 /\ last'.op % 256 = 30)
       => LET x == (last'.op \div 256) % 16
          IN /\ panic' = "none"
             /\ i_register' = (i_register + v_registers[x]) % U16
             /\ v_registers' = v_registers]_vars

\* C18: in 8xy4, 8xy5, 8xy6, 8xy7 and 8xyE the result and the flag come from
\* the values V[x] and V[y] had before the step, x = 15 and y = 15 included,
\* and the flag is written last: V[15] ends as the carry, the not-borrow or
\* the bit shifted out, V[x] for x # 15 as the result, every other register as it was.
C18_FlagWrittenLast ==
  [][(last'.call = "tick" /\ last'.op >= 0 /\ last'.op \div 4096 = 8
        /\ last'.op % 16 \in {4, 5, 6, 7, 14})
       => LET x == (last'.op \div 256) % 16
              y == (last'.op \div 16) % 16
              d4 == last'.op % 16
              a == v_registers[x]
              b == v_registers[y]
              result == CASE d4 = 4 -> (a + b) % 256
                          [] d4 = 5 -> (a - b + 256) % 256
                          [] d4 = 6 -> a \div 2
                          [] d4 = 7 -> (b - a + 256) % 256
                          [] d4 = 14 -> (2 * a) % 256
              flag == CASE d4 = 4 -> IF a + b > 255 THEN 1 ELSE 0
                        [] d4 = 5 -> IF a < b THEN 0 ELSE 1
                        [] d4 = 6 -> a % 2
                        [] d4 = 7 -> IF b < a THEN 0 ELSE 1
                        [] d4 = 14 -> a \div 128
          IN /\ panic' = "none"
             /\ v_registers' = [r \in 0 .. NUM_REGISTERS - 1 |->
                                  IF r = 15 THEN flag
                                  ELSE IF r = x THEN result
                                  ELSE v_registers[r]]]_vars

\* 8F24 with V[F] = 255 and V2 = 1: the sum is 0 and V[F] ends as the carry 1
C18_Witness ==
  /\ last.call = "tick" /\ last.op = W(8, 15, 2, 4) /\ panic = "none"
  /\ v_registers[2] = 1 /\ v_registers[15] = 1

\* C19: a draw Dxyn inverts the display bit ((V[x] + c) mod 64) + 64 * ((V[y] + r) mod 32)
\* for every row r < n and column c < 8 with bit 7 - c of memory[I + r] set,
\* and leaves every other display bit as it was; the same draw made again
\* with V[x] and V[y] as they were gives back the display from before the first.
C19_DrawXors ==
  [][(last'.call = "tick" /\ last'.op >= 0 /\ last'.op \div 4096 = 13 /\ panic' = "none")
       => LET x == (last'.op \div 256) % 16
              y == (last'.op \div 16) % 16
              n == last'.op % 16
              selected == { ((v_registers[x] + rc[2]) % 64) + 64 * ((v_registers[y] + rc[1]) % 32) :
                              rc \in { q \in (0 .. n - 1) \X (0 .. 7) :
                                         (peek(ram, i_register + q[1]) \div (2 ^ (7 - q[2]))) % 2 = 1 } }
          IN /\ \A idx \in 0 .. SCREEN_WIDTH * SCREEN_HEIGHT - 1 :
                  (idx \in display') = ((idx \in display) # (idx \in selected))
             /\ display' \subseteq 0 .. SCREEN_WIDTH * SCREEN_HEIGHT - 1
             /\ (v_registers'[x] = v_registers[x] /\ v_registers'[y] = v_registers[y])
                  => exec_DRW(Emulator', last'.op).display = display]_vars

\* glyph 0 drawn at (62, 30): its 14 pixels, wrapped to columns 0, 1 and rows 0 .. 2
C19_Witness ==
  /\ last.call = "tick" /\ last.op = W(13, 1, 2, 5) /\ panic = "none"
  /\ v_registers[1] = 62 /\ v_registers[2] = 30
  /\ display = {1982, 1983, 1920, 1921, 2046, 1985, 62, 1, 126, 65, 190, 191, 128, 129}

\* C20: a call 2nnn fetched at address a with the stack pointer below 16
\* goes to nnn with the pointer one higher, and the return 00EE that matches
\* it (no unmatched call or return in between) leaves pc = a + 2 and the
\* pointer as it was before the call; nested calls return newest first.
\* `pushed` holds a + 2 for every call that has not returned yet.
C20_CallReturnInverse ==
  [][((last'.call = "tick" /\ last'.op >= 0 /\ last'.op \div 4096 = 2 /\ stack_ptr < STACK_SIZE)
        => (/\ panic' = "none"
            /\ pc' = last'.op % 4096
            /\ stack_ptr' = stack_ptr + 1
            /\ pushed' = Append(pushed, pc + 2)
            /\ stack_ptr' = Len(pushed')))
     /\ ((last'.call = "tick" /\ last'.op = 238 /\ stack_ptr > 0)
        => (/\ panic' = "none"
            /\ pc' = pushed[Len(pushed)]
            /\ pushed' = SubSeq(pushed, 1, Len(pushed) - 1)
            /\ stack_ptr' = stack_ptr - 1
            /\ stack_ptr' = Len(pushed')))]_vars

\* the second return of 2204 1FFF 2208 00EE 00EE: back at 0x202, after the
\* inner call returned to 0x206
C20_Witness ==
  /\ last.call = "tick" /\ last.op = 238 /\ panic = "none"
  /\ pc = 514 /\ stack_ptr = 0 /\ pushed = << >>
  /\ stack[0] = 514 /\ stack[1] = 518

====
